---- MODULE Spec2Model ----
(***************************************************************************)
(* A model of chemprop/data/data.py: MoleculeDatapoint's mask generation,  *)
(* substructure_index_mapping, and MoleculeDataset's bert_init, shuffle,   *)
(* chunk, normalize_features, mask and targets.                            *)
(*                                                                         *)
(* Arrays keep the source's 0-based indexing: a Python list of length n is *)
(* a function with domain 0..n-1.                                          *)
(***************************************************************************)
EXTENDS Integers, Sequences, FiniteSets, TLC

(* ---------------------------------------------------------------------- *)
(* Bounds                                                                 *)
(* ---------------------------------------------------------------------- *)
\* largest molecule (number of atoms) of the single-datapoint specification
MaxAtoms == 3

\* most datapoints handed to the first MoleculeDataset
MaxData == 2

\* largest num_chunks passed to chunk
MaxChunks == 2

\* most calls of shuffle, sort and chunk in one run
MaxOps == 2

\* most datapoints of the dataset MoleculeDataset.bert_init runs on
MaxPoolData == 3

\* largest feature value of a datapoint before normalization
MaxFeatureValue == 2

\* most calls of normalize_features in one run
MaxNormCalls == 2

\* number of states of each of the two random generators
RngMod == 8

\* largest seed passed to shuffle
MaxSeed == 1

\* most datapoints of the two datasets that are shuffled side by side
MaxShuffleData == 2

\* most calls of shuffle on the two datasets
MaxShuffles == 2

(* ---------------------------------------------------------------------- *)
(* State                                                                  *)
(* ---------------------------------------------------------------------- *)
VARIABLES
    \* one MoleculeDatapoint (SpecMask)
    num_atoms,               \* mol.GetNumAtoms()
    nb_indices,              \* self.nb_indices: atom -> list of neighbours
    bert_vocab_func,         \* self.bert_vocab_func
    bert_mask_type,          \* self.bert_mask_type
    substructures,           \* self.substructures
    substructure_index_map,  \* self.substructure_index_map
    mask,                    \* self.mask
    vocab_targets,           \* self.vocab_targets
    atoms,                   \* recreate_mask's local set `atoms` (cluster loop)
    atom,                    \* recreate_mask's local `atom` (cluster loop)
    drew,                    \* outcome of np.random.random() < p / len(cluster)
    iter,                    \* iterations done by the running loop
    pc,                      \* position inside recreate_mask
    \* MoleculeDataset objects sharing their datapoints (SpecData)
    dataset_type,            \* args.dataset_type of every datapoint
    vocab_func,              \* args.bert_vocab_func of every datapoint
    points,                  \* datapoint -> its mask and vocab_targets
    datasets,                \* the MoleculeDataset objects, in creation order
    returned,                \* what the last chunk call returned, and on what
    ops,                     \* calls of shuffle, sort and chunk made so far
    \* one call of MoleculeDataset.bert_init (SpecBert)
    sequential,              \* args.sequential
    heap,                    \* the MoleculeDatapoint objects, by identity
    bdata,                   \* self.data: a list of references into heap
    data0,                   \* the smiles of self.data when the call began
    bpc,                     \* position inside MoleculeDataset.bert_init
    loop_i,                     \* position of the running `for d in self.data`
    pending,                 \* Pool.map: the tasks no worker has taken yet
    results,                 \* Pool.map: task -> the datapoint a worker returned
    done_order,              \* Pool.map: the tasks in their order of completion
    \* one dataset being normalized (SpecNorm)
    features,                \* datapoint -> d.features, or <<>> for None
    scaler,                  \* self.scaler: <<>> for None, else <<the scaler>>
    norm_log,                \* per call: its argument and the features it left
    \* two content-identical datasets shuffled side by side (SpecShuffle)
    runs,                    \* run -> self.data, the masks, and the process's
                             \* two random generators (random, numpy.random)
    last_seed                \* the seed of the last shuffle call, if any

maskVars == <<num_atoms, nb_indices, bert_vocab_func, bert_mask_type,
              substructures, substructure_index_map, mask, vocab_targets,
              atoms, atom, drew, iter, pc>>

dataVars == <<dataset_type, vocab_func, points, datasets, returned, ops>>

bertVars == <<sequential, heap, bdata, data0, bpc, loop_i, pending, results, done_order>>

normVars == <<features, scaler, norm_log>>

shuffleVars == <<runs, last_seed>>

vars == <<maskVars, dataVars, bertVars, normVars, shuffleVars>>

\* what the steps of one specification leave alone
notMaskVars == <<dataVars, bertVars, normVars, shuffleVars>>

notDataVars == <<maskVars, bertVars, normVars, shuffleVars>>

notBertVars == <<maskVars, dataVars, normVars, shuffleVars>>

notNormVars == <<maskVars, dataVars, bertVars, shuffleVars>>

notShuffleVars == <<maskVars, dataVars, bertVars, normVars>>

(* ---------------------------------------------------------------------- *)
(* Python helpers                                                         *)
(* ---------------------------------------------------------------------- *)
Indices(n) == 0 .. (n - 1)

Len0(a) == Cardinality(DOMAIN a)

MinOf(S) == CHOOSE x \in S : \A y \in S : x <= y

MaxOf(S) == CHOOSE x \in S : \A y \in S : x >= y

\* sorted(list(S)) for a set of integers, as a 0-based array
SortedList(S) ==
    [i \in Indices(Cardinality(S)) |->
        CHOOSE x \in S : Cardinality({y \in S : y < x}) = i]

\* the elements of a 0-based array
Elems(a) == {a[i] : i \in DOMAIN a}

\* sum(a) for a 0/1 array
RECURSIVE SumTo(_, _)
SumTo(a, n) == IF n = 0 THEN 0 ELSE a[n - 1] + SumTo(a, n - 1)

Sum0(a) == SumTo(a, Len0(a))

\* np.ones(n), np.zeros(n)
Ones(n) == [i \in Indices(n) |-> 1]

Zeros(n) == [i \in Indices(n) |-> 0]

\* a[-k:] = v on an array of length n: Python's slice start for -k is
\* max(n - k, 0), and -0 is 0, so a[-0:] is the whole array
NegSliceStart(n, k) == IF k = 0 THEN 0 ELSE IF n - k < 0 THEN 0 ELSE n - k

AssignTail(a, k, v) ==
    [i \in DOMAIN a |-> IF i >= NegSliceStart(Len0(a), k) THEN v[i] ELSE a[i]]

\* a[loop_i] = 0 for a set of indices (numpy fancy indexing)
ZeroAt(a, idx) == [i \in DOMAIN a |-> IF i \in idx THEN 0 ELSE a[i]]

(* ---------------------------------------------------------------------- *)
(* substructure_index_mapping                                             *)
(* ---------------------------------------------------------------------- *)
\* the assertion of line 362: collapsed substructures share no atoms
RECURSIVE SumSizes(_)
SumSizes(SS) ==
    IF SS = {} THEN 0
    ELSE LET s == CHOOSE s \in SS : TRUE
         IN  Cardinality(s) + SumSizes(SS \ {s})

NoSharedAtoms(SS) == SumSizes(SS) = Cardinality(UNION SS)

\* a sort of the substructures by their largest atom
SubstructKeyLast(s) == MaxOf(s)

\* the key of line 365: substruct[0] of the sorted substructure
SubstructKey(s) == MinOf(s)

\* sorted(substructures, key=lambda substruct: substruct[0]), 0-based
SortedSubstructures(SS) ==
    [i \in Indices(Cardinality(SS)) |->
        CHOOSE s \in SS :
            Cardinality({t \in SS : SubstructKey(t) < SubstructKey(s)}) = i]

remaining_atoms(n, SS) == Indices(n) \ UNION SS

\* every substructure collapsed into the one slot after the remaining atoms
SubstructureSlotShared(r, i) == r

\* the index given to the atoms of the i-th sorted substructure (line 373)
SubstructureSlot(r, i) == r + i

substructure_index_mapping(n, SS) ==
    LET remaining_atom_ordering == SortedList(remaining_atoms(n, SS))
        sorted == SortedSubstructures(SS)
        r == Len0(remaining_atom_ordering)
    IN  [a \in Indices(n) |->
            IF a \in remaining_atoms(n, SS)
            THEN CHOOSE i \in DOMAIN remaining_atom_ordering :
                     remaining_atom_ordering[i] = a
            ELSE SubstructureSlot(r, CHOOSE i \in DOMAIN sorted : a \in sorted[i])]

(* ---------------------------------------------------------------------- *)
(* Collaborators of the datapoint (vocab.py, RDKit)                       *)
(* ---------------------------------------------------------------------- *)
\* the molecule graphs on n atoms: sets of undirected bonds
Bonds(n) == {e \in SUBSET Indices(n) : Cardinality(e) = 2}

Neighbors(n, bonds, a) == {b \in Indices(n) : {a, b} \in bonds}

\* vocab.smiles2indices(smiles)[1]: each atom's list of neighbour indices
NbIndices(n, bonds) == [a \in Indices(n) |-> SortedList(Neighbors(n, bonds, a))]

\* vocab.smiles2indices(smiles)[0]: one token id per atom
AtomTokens(n, bonds) == [a \in Indices(n) |-> Cardinality(Neighbors(n, bonds, a))]

\* vocab.w2i(substructure_to_feature(mol, substruct)): a token id
w2i(substruct) == Cardinality(substruct)

\* get_substructures(...): a set of non-overlapping, non-empty atom sets
\* (each atom is put in no set, label 0, or in the set of its label)
SubstructureFamilies(n) ==
    {{{a \in Indices(n) : f[a] = k} : k \in 1 .. n} \ {{}} :
        f \in [Indices(n) -> 0 .. n]}

(* ---------------------------------------------------------------------- *)
(* MoleculeDatapoint.recreate_mask                                        *)
(* ---------------------------------------------------------------------- *)
Masks(n) == [Indices(n) -> {0, 1}]

\* lines 130-132: all ones over the compacted space, the tail set to 0
SubstructureMask(index_map, SS) ==
    LET ones == Ones(MaxOf(Elems(index_map)) + 1)
    IN  AssignTail(ones, Cardinality(SS), Zeros(Len0(ones)))

\* one target per atom of the molecule instead of one per mask entry
SubstructureTargetsPerAtom(m, index_map, SS) == Zeros(Len0(index_map))

\* lines 134-139: zeros, the tail set to the substructures' token ids in
\* compacted-index order, unless no substructure was found
SubstructureTargets(m, index_map, SS) ==
    LET sorted == SortedSubstructures(SS)
        n == Len0(m)
        k == Cardinality(SS)
        labels == [i \in Indices(n) |->
                      IF i >= n - k THEN w2i(sorted[i - (n - k)]) ELSE 0]
    IN  IF k > 0 THEN AssignTail(Zeros(n), k, labels) ELSE Zeros(n)

RecreateMaskSubstructure ==
    /\ UNCHANGED notMaskVars
    /\ pc \in {"start", "done"}
    /\ bert_vocab_func = "substructure"
    /\ \E SS \in SubstructureFamilies(num_atoms) :
          /\ NoSharedAtoms(SS)
          /\ substructures' = SS
          /\ substructure_index_map' = substructure_index_mapping(num_atoms, SS)
          /\ mask' = SubstructureMask(substructure_index_map', SS)
          /\ vocab_targets' = SubstructureTargets(mask', substructure_index_map', SS)
    /\ pc' = "done"
    /\ UNCHANGED <<num_atoms, nb_indices, bert_vocab_func, bert_mask_type,
                   atoms, atom, drew, iter>>

\* a mask left as drawn
EnsureNothing(m, k) == m

\* lines 175-176 and 182-183: force one 0 into an all-ones mask
EnsureOneZero(m, k) == IF Sum0(m) = Len0(m) THEN [m EXCEPT ![k] = 0] ELSE m

\* lines 178-183
RecreateMaskRandom ==
    /\ UNCHANGED notMaskVars
    /\ pc \in {"start", "done"}
    /\ bert_vocab_func # "substructure"
    /\ bert_mask_type = "random"
    /\ \E m \in Masks(Len0(vocab_targets)), k \in DOMAIN vocab_targets :
          mask' = EnsureOneZero(m, k)
    /\ pc' = "done"
    /\ UNCHANGED <<num_atoms, nb_indices, bert_vocab_func, bert_mask_type,
                   substructures, substructure_index_map, vocab_targets,
                   atoms, atom, drew, iter>>

\* line 165
CorrelationBegin ==
    /\ UNCHANGED notMaskVars
    /\ pc \in {"start", "done"}
    /\ bert_vocab_func # "substructure"
    /\ bert_mask_type = "correlation"
    /\ mask' \in Masks(Len0(vocab_targets))
    /\ iter' = 0
    /\ pc' = "correlation"
    /\ UNCHANGED <<num_atoms, nb_indices, bert_vocab_func, bert_mask_type,
                   substructures, substructure_index_map, vocab_targets,
                   atoms, atom, drew>>

\* line 172: the mask entry is copied from position nbr_index of the mask
CopyNeighbor(m, index_to_change, nbr_index) ==
    [m EXCEPT ![index_to_change] = m[nbr_index]]

\* lines 168-172, one iteration
CorrelationIter ==
    /\ UNCHANGED notMaskVars
    /\ pc = "correlation"
    /\ iter < Len0(mask)
    /\ \E index_to_change \in DOMAIN mask :
          IF Len0(nb_indices[index_to_change]) > 0
          THEN \E nbr_index \in DOMAIN nb_indices[index_to_change] :
                  mask' = CopyNeighbor(mask, index_to_change, nbr_index)
          ELSE mask' = mask
    /\ iter' = iter + 1
    /\ UNCHANGED <<num_atoms, nb_indices, bert_vocab_func, bert_mask_type,
                   substructures, substructure_index_map, vocab_targets,
                   atoms, atom, drew, pc>>

\* lines 174-176
CorrelationEnsure ==
    /\ UNCHANGED notMaskVars
    /\ pc = "correlation"
    /\ iter = Len0(mask)
    /\ \E k \in DOMAIN mask : mask' = EnsureOneZero(mask, k)
    /\ pc' = "done"
    /\ UNCHANGED <<num_atoms, nb_indices, bert_vocab_func, bert_mask_type,
                   substructures, substructure_index_map, vocab_targets,
                   atoms, atom, drew, iter>>

\* lines 145-146
ClusterBegin ==
    /\ UNCHANGED notMaskVars
    /\ pc \in {"start", "done"}
    /\ bert_vocab_func # "substructure"
    /\ bert_mask_type = "cluster"
    /\ mask' = Ones(Len0(vocab_targets))
    /\ atoms' = Indices(Len0(vocab_targets))
    /\ iter' = 0
    /\ pc' = "cluster"
    /\ UNCHANGED <<num_atoms, nb_indices, bert_vocab_func, bert_mask_type,
                   substructures, substructure_index_map, vocab_targets,
                   atom, drew>>

\* lines 149-150
Cluster(a) == {a} \cup Elems(nb_indices[a])

\* the neighbours leave `atoms` whatever the draw
AtomsAfterRegardless(S, a, d) == (S \ {a}) \ Elems(nb_indices[a])

\* lines 148 and 153-155: `atoms` after an iteration that popped a and
\* drew d: pop removes a; the neighbours go only inside the `if`
AtomsAfter(S, a, d) == IF d THEN (S \ {a}) \ Elems(nb_indices[a]) ELSE S \ {a}

\* lines 147-155, one iteration
ClusterIter ==
    /\ UNCHANGED notMaskVars
    /\ pc = "cluster"
    /\ atoms # {}
    /\ \E a \in atoms, d \in BOOLEAN :
          /\ atom' = a
          /\ drew' = d
          /\ mask' = IF d THEN ZeroAt(mask, Cluster(a)) ELSE mask
          /\ atoms' = AtomsAfter(atoms, a, d)
    /\ iter' = iter + 1
    /\ UNCHANGED <<num_atoms, nb_indices, bert_vocab_func, bert_mask_type,
                   substructures, substructure_index_map, vocab_targets, pc>>

\* lines 157-162: force one cluster of 0s into an all-ones mask
EnsureOneCluster(m, a) == IF Sum0(m) = Len0(m) THEN ZeroAt(m, Cluster(a)) ELSE m

ClusterEnsure ==
    /\ UNCHANGED notMaskVars
    /\ pc = "cluster"
    /\ atoms = {}
    /\ \E a \in DOMAIN mask : mask' = EnsureOneCluster(mask, a)
    /\ pc' = "done"
    /\ UNCHANGED <<num_atoms, nb_indices, bert_vocab_func, bert_mask_type,
                   substructures, substructure_index_map, vocab_targets,
                   atoms, atom, drew, iter>>

\* a datapoint on which bert_init has run line 116
MaskIdle ==
    /\ num_atoms = 1
    /\ nb_indices = <<>>
    /\ bert_vocab_func = "atom"
    /\ bert_mask_type = "random"
    /\ substructures = {}
    /\ substructure_index_map = <<>>
    /\ mask = <<>>
    /\ vocab_targets = <<>>
    /\ atoms = {}
    /\ atom = 0
    /\ drew = FALSE
    /\ iter = 0
    /\ pc = "idle"

DataIdle ==
    /\ dataset_type = "none"
    /\ vocab_func = "atom"
    /\ points = <<>>
    /\ datasets = <<>>
    /\ returned = <<>>
    /\ ops = 0

BertIdle ==
    /\ sequential = FALSE
    /\ heap = <<>>
    /\ bdata = <<>>
    /\ data0 = <<>>
    /\ bpc = "idle"
    /\ loop_i = 0
    /\ pending = {}
    /\ results = <<>>
    /\ done_order = <<>>

NormIdle ==
    /\ features = <<>>
    /\ scaler = <<>>
    /\ norm_log = <<>>

ShuffleIdle ==
    /\ runs = <<>>
    /\ last_seed = [given |-> FALSE, seed |-> 0]

InitMask ==
    /\ DataIdle
    /\ BertIdle
    /\ NormIdle
    /\ ShuffleIdle
    /\ num_atoms \in 1 .. MaxAtoms
    /\ \E bonds \in SUBSET Bonds(num_atoms) :
          /\ nb_indices = NbIndices(num_atoms, bonds)
          /\ vocab_targets = AtomTokens(num_atoms, bonds)
    /\ bert_vocab_func \in {"atom", "substructure"}
    /\ bert_mask_type \in {"random", "correlation", "cluster"}
    /\ substructures = {}
    /\ substructure_index_map = <<>>
    /\ mask = <<>>
    /\ atoms = {}
    /\ atom = 0
    /\ drew = FALSE
    /\ iter = 0
    /\ pc = "start"

NextMask ==
    \/ RecreateMaskSubstructure
    \/ RecreateMaskRandom
    \/ CorrelationBegin
    \/ CorrelationIter
    \/ CorrelationEnsure
    \/ ClusterBegin
    \/ ClusterIter
    \/ ClusterEnsure

SpecMask == InitMask /\ [][NextMask]_vars

(* ---------------------------------------------------------------------- *)
(* Properties of one datapoint (SpecMask)                                 *)
(* ---------------------------------------------------------------------- *)
SubstructureDone == pc = "done" /\ bert_vocab_func = "substructure"

RemainingCount == Cardinality(remaining_atoms(num_atoms, substructures))

\* C1: the index map has length N; the atoms outside every substructure get
\* 0..R-1 in increasing order of their original index, and every atom of the
\* substructure with the i-th smallest minimum atom gets R+i.
C1_IndexLayout ==
    SubstructureDone =>
        /\ DOMAIN substructure_index_map = Indices(num_atoms)
        /\ \A a \in remaining_atoms(num_atoms, substructures) :
              substructure_index_map[a] =
                  Cardinality({b \in remaining_atoms(num_atoms, substructures) : b < a})
        /\ \A s \in substructures : \A a \in s :
              substructure_index_map[a] =
                  RemainingCount
                  + Cardinality({t \in substructures : MinOf(t) < MinOf(s)})

\* two substructures whose order by smallest atom differs from their order by
\* largest atom, next to nothing else or to remaining atoms
C1_Witness ==
    /\ SubstructureDone
    /\ \E s, t \in substructures : MinOf(s) < MinOf(t) /\ MaxOf(s) > MaxOf(t)

\* C2 as stated: the index map is a bijection from [0,N) onto [0,N).
C2_Bijection ==
    SubstructureDone =>
        /\ \A a, b \in Indices(num_atoms) :
              substructure_index_map[a] = substructure_index_map[b] => a = b
        /\ Elems(substructure_index_map) = Indices(num_atoms)

\* C2 amended: the index map is a total map from [0,N) onto [0,R+S); two
\* atoms share an index exactly when they are the same atom or lie in the
\* same substructure.
C2_OntoCompacted ==
    SubstructureDone =>
        /\ DOMAIN substructure_index_map = Indices(num_atoms)
        /\ Elems(substructure_index_map)
               = Indices(RemainingCount + Cardinality(substructures))
        /\ \A a, b \in Indices(num_atoms) :
              substructure_index_map[a] = substructure_index_map[b]
                  <=> (a = b \/ \E s \in substructures : a \in s /\ b \in s)

\* two substructures, one of them with several atoms
C2_Witness ==
    /\ SubstructureDone
    /\ Cardinality(substructures) >= 2
    /\ \E s \in substructures : Cardinality(s) >= 2

\* C3 as stated: in substructure mode, for every S >= 0, the mask has length
\* R+S, its last S entries are 0 and the others 1; vocab_targets has the same
\* length and is 0 outside the last S entries.
C3_SubstructureMask ==
    SubstructureDone =>
        /\ DOMAIN mask = Indices(RemainingCount + Cardinality(substructures))
        /\ \A i \in DOMAIN mask : mask[i] = IF i >= RemainingCount THEN 0 ELSE 1
        /\ DOMAIN vocab_targets = DOMAIN mask
        /\ \A i \in DOMAIN vocab_targets : i < RemainingCount => vocab_targets[i] = 0

\* C4: the random, correlation and cluster policies end with a mask of one
\* entry per atom, at least one of them 0.
C4_SomeAtomMasked ==
    (pc = "done" /\ bert_vocab_func # "substructure") =>
        /\ DOMAIN mask = Indices(num_atoms)
        /\ \E i \in DOMAIN mask : mask[i] = 0

\* a finished mask with exactly one 0 entry on a molecule of several atoms
C4_Witness ==
    /\ pc = "done"
    /\ bert_vocab_func # "substructure"
    /\ num_atoms >= 2
    /\ Sum0(mask) = Len0(mask) - 1

InClusterLoop == pc = "cluster" /\ atoms # {}

\* C9 as stated: every iteration of the cluster loop removes the picked
\* atom's neighbours from `atoms`, masked or not, and the loop ends with
\* `atoms` empty after finitely many iterations.
C9_NeighborsAlwaysRemoved ==
    /\ [][InClusterLoop =>
            /\ atom' \in atoms
            /\ atoms' = (atoms \ {atom'}) \ Elems(nb_indices[atom'])]_vars
    /\ [](pc = "cluster" => iter + Cardinality(atoms) <= num_atoms)
    /\ []((pc = "done" /\ bert_vocab_func # "substructure"
              /\ bert_mask_type = "cluster") => atoms = {})

\* C9 amended: every iteration picks one unvisited atom and removes it from
\* `atoms`; the atom's neighbours are removed (and the cluster masked) only
\* when the cluster is masked; the loop ends with `atoms` empty after at
\* most one iteration per atom.
C9_NeighborsRemovedWhenMasked ==
    /\ [][InClusterLoop =>
            /\ atom' \in atoms
            /\ iter' = iter + 1
            /\ drew' => /\ atoms' = (atoms \ {atom'}) \ Elems(nb_indices[atom'])
                        /\ \A i \in Cluster(atom') : mask'[i] = 0
            /\ ~drew' => /\ atoms' = atoms \ {atom'}
                         /\ mask' = mask]_vars
    /\ [](pc = "cluster" => iter + Cardinality(atoms) <= num_atoms)
    /\ []((pc = "done" /\ bert_vocab_func # "substructure"
              /\ bert_mask_type = "cluster") => atoms = {})

\* an iteration left its cluster unmasked and neighbours of it still to visit
C9_Witness ==
    /\ pc = "cluster"
    /\ iter >= 1
    /\ ~drew
    /\ atoms \cap Elems(nb_indices[atom]) # {}

(* ---------------------------------------------------------------------- *)
(* MoleculeDataset: construction, shuffle, sort, chunk, mask, targets     *)
(* ---------------------------------------------------------------------- *)
\* the datapoints are 1, 2, ...; datapoint d is a molecule of this many atoms
AtomCount(d) == IF d = 1 THEN 2 ELSE 1

\* vocab.smiles2indices(smiles)[0] of datapoint d
DatapointTokens(d) == [i \in Indices(AtomCount(d)) |-> 1]

\* d.bert_pretraining and d.kernel (lines 49 and 55)
IsPretraining(d) == dataset_type = "bert_pretraining"

IsKernel(d) == dataset_type = "kernel"

\* lines 206-209: a kernel dataset drops its last datapoint when odd
EvenPrefix(data, kernel) ==
    IF kernel /\ Len(data) % 2 = 1 THEN SubSeq(data, 1, Len(data) - 1) ELSE data

\* MoleculeDataset.__init__ (lines 201-213)
MoleculeDataset(data) ==
    LET kernel == IF Len(data) > 0 THEN IsKernel(data[1]) ELSE FALSE
    IN  [data |-> EvenPrefix(data, kernel),
         bert_pretraining |-> IF Len(data) > 0 THEN IsPretraining(data[1]) ELSE FALSE,
         kernel |-> kernel]

\* get_substructures on datapoint d: non-overlapping atom sets of the
\* configured sizes (two atoms and more)
FoundSubstructures(d) ==
    {SS \in SubstructureFamilies(AtomCount(d)) : \A s \in SS : Cardinality(s) >= 2}

\* what one call of recreate_mask can leave in a datapoint whose fields are
\* cur: in substructure mode lines 125-140; otherwise a mask with one entry
\* per vocab target and at least one 0 (lines 142-189), vocab_targets kept
RecreateResults(d, cur) ==
    IF vocab_func = "substructure"
    THEN {LET index_map == substructure_index_mapping(AtomCount(d), SS)
              m == SubstructureMask(index_map, SS)
          IN  [mask |-> m, vocab_targets |-> SubstructureTargets(m, index_map, SS)] :
             SS \in FoundSubstructures(d)}
    ELSE {[mask |-> EnsureOneZero(m, k), vocab_targets |-> cur.vocab_targets] :
             m \in Masks(Len0(cur.vocab_targets)),
             k \in DOMAIN cur.vocab_targets}

\* the datapoints p after `for d in data: d.recreate_mask()` (lines 298-299)
RECURSIVE RecreateAll(_, _)
RecreateAll(p, data) ==
    IF data = <<>> THEN {p}
    ELSE UNION {RecreateAll([p EXCEPT ![Head(data)] = r], Tail(data)) :
                   r \in RecreateResults(Head(data), p[Head(data)])}

SeqElems(q) == {q[i] : i \in DOMAIN q}

\* the orders random.shuffle can leave a list in
Shuffles(data) ==
    {q \in [DOMAIN data -> SeqElems(data)] : SeqElems(q) = SeqElems(data)}

\* MoleculeDataset.shuffle (lines 291-299)
Shuffle(i) ==
    /\ UNCHANGED notDataVars
    /\ i \in DOMAIN datasets
    /\ ops < MaxOps
    /\ ops' = ops + 1
    /\ \E order \in Shuffles(datasets[i].data) :
          \E p \in (IF datasets[i].bert_pretraining
                    THEN RecreateAll(points, order)
                    ELSE {points}) :
              /\ datasets' = [datasets EXCEPT ![i].data = order]
              /\ points' = p
    /\ UNCHANGED <<dataset_type, vocab_func, returned>>

\* list.sort(key=key): a stable sort, the key a function of the datapoint
RECURSIVE InsertByKey(_, _, _)
InsertByKey(q, x, key) ==
    IF q = <<>> THEN <<x>>
    ELSE IF key[x] < key[Head(q)] THEN <<x>> \o q
    ELSE <<Head(q)>> \o InsertByKey(Tail(q), x, key)

RECURSIVE SortByKey(_, _)
SortByKey(q, key) ==
    IF q = <<>> THEN <<>>
    ELSE InsertByKey(SortByKey(SubSeq(q, 1, Len(q) - 1), key), q[Len(q)], key)

\* MoleculeDataset.sort (lines 335-336)
Sort(i) ==
    /\ UNCHANGED notDataVars
    /\ i \in DOMAIN datasets
    /\ ops < MaxOps
    /\ ops' = ops + 1
    /\ \E key \in [DOMAIN points -> {0, 1}] :
          datasets' = [datasets EXCEPT ![i].data = SortByKey(datasets[i].data, key)]
    /\ UNCHANGED <<dataset_type, vocab_func, points, returned>>

\* the chunk length rounded down
ChunkLenFloor(len, num_chunks) == len \div num_chunks

\* math.ceil(len(self.data) / num_chunks)
ChunkLen(len, num_chunks) == (len + num_chunks - 1) \div num_chunks

\* self.data[a:b] of a Python list
Slice(data, a, b) ==
    LET lo == IF a > Len(data) THEN Len(data) ELSE a
        hi == IF b > Len(data) THEN Len(data) ELSE b
    IN  SubSeq(data, lo + 1, hi)

\* MoleculeDataset.chunk (lines 301-308): shuffle, then one new dataset per
\* slice; the call returns the list of the new datasets
Chunk(i, num_chunks) ==
    /\ UNCHANGED notDataVars
    /\ i \in DOMAIN datasets
    /\ ops < MaxOps
    /\ ops' = ops + 1
    /\ \E order \in Shuffles(datasets[i].data) :
          \E p \in (IF datasets[i].bert_pretraining
                    THEN RecreateAll(points, order)
                    ELSE {points}) :
              LET chunk_len == ChunkLen(Len(order), num_chunks)
                  made == [j \in 1 .. num_chunks |->
                              MoleculeDataset(Slice(order, (j - 1) * chunk_len,
                                                    j * chunk_len))]
              IN  /\ datasets' = [datasets EXCEPT ![i].data = order] \o made
                  /\ points' = p
                  /\ returned' = [on |-> i,
                                  chunks |-> [j \in 1 .. num_chunks |->
                                                 Len(datasets) + j]]
    /\ UNCHANGED <<dataset_type, vocab_func>>

\* the flattening `[x for d in self.data for x in d.<field>]`, each entry
\* with the datapoint and the slot it comes from
RECURSIVE Flatten(_, _)
Flatten(data, field) ==
    IF data = <<>> THEN <<>>
    ELSE LET a == points[Head(data)][field]
         IN  [k \in 1 .. Len0(a) |->
                 [d |-> Head(data), slot |-> k - 1, value |-> a[k - 1]]]
             \o Flatten(Tail(data), field)

\* MoleculeDataset.mask (lines 285-289)
DatasetMask(ds) ==
    IF ~ds.bert_pretraining THEN [raised |-> TRUE, value |-> <<>>]
    ELSE [raised |-> FALSE, value |-> Flatten(ds.data, "mask")]

\* MoleculeDataset.targets (lines 267-280), the 'vocab' entry
DatasetTargetsVocab(ds) ==
    IF ds.bert_pretraining
    THEN [dict |-> TRUE, vocab |-> Flatten(ds.data, "vocab_targets")]
    ELSE [dict |-> FALSE, vocab |-> <<>>]

\* a dataset constructed from 0..MaxData datapoints; in pretraining mode
\* MoleculeDataset.bert_init has run
InitData ==
    /\ MaskIdle
    /\ BertIdle
    /\ NormIdle
    /\ ShuffleIdle
    /\ dataset_type \in {"supervised", "bert_pretraining", "kernel"}
    /\ vocab_func \in (IF dataset_type = "bert_pretraining"
                       THEN {"atom", "substructure"} ELSE {"atom"})
    /\ ops = 0
    /\ \E n \in 0 .. MaxData :
          /\ datasets = <<MoleculeDataset([d \in 1 .. n |-> d])>>
          /\ IF dataset_type = "bert_pretraining"
             THEN \E p \in [1 .. n -> UNION {RecreateResults(d,
                                   [mask |-> <<>>, vocab_targets |-> DatapointTokens(d)]) :
                                   d \in 1 .. n}] :
                     /\ \A d \in 1 .. n :
                           p[d] \in RecreateResults(d,
                                   [mask |-> <<>>, vocab_targets |-> DatapointTokens(d)])
                     /\ points = p
             ELSE points = [d \in 1 .. n |-> [mask |-> <<>>, vocab_targets |-> <<>>]]
    /\ returned = [on |-> 0, chunks |-> <<>>]

ShuffleAny == \E i \in DOMAIN datasets : Shuffle(i)

SortAny == \E i \in DOMAIN datasets : Sort(i)

ChunkAny == \E i \in DOMAIN datasets, num_chunks \in 1 .. MaxChunks : Chunk(i, num_chunks)

NextData ==
    \/ ShuffleAny
    \/ SortAny
    \/ ChunkAny

SpecData == InitData /\ [][NextData]_vars

(* ---------------------------------------------------------------------- *)
(* Properties of the datasets (SpecData)                                  *)
(* ---------------------------------------------------------------------- *)
ChunkReturned == returned.on # 0

\* the dataset chunk was called on, and the datasets it returned
ChunkedData == datasets[returned.on].data

ChunkData(j) == datasets[returned.chunks[j]].data

\* ceil(len / n), as the least c with c * n >= len
CeilDiv(len, n) == CHOOSE c \in 0 .. len : c * n >= len /\ \A b \in 0 .. len : b * n >= len => c <= b

\* min(c, max(0, len - i * c)), the length of the i-th slice (i from 0)
SliceLen(len, c, i) ==
    LET left == IF len - i * c < 0 THEN 0 ELSE len - i * c
    IN  IF c < left THEN c ELSE left

\* how often datapoint d occurs in the chunks returned
RECURSIVE CountInChunks(_, _)
CountInChunks(d, j) ==
    IF j = 0 THEN 0
    ELSE Cardinality({k \in DOMAIN ChunkData(j) : ChunkData(j)[k] = d})
         + CountInChunks(d, j - 1)

CountInChunked(d) == Cardinality({k \in DOMAIN ChunkedData : ChunkedData[k] = d})

\* C5 as stated: in any mode chunk(n) returns n datasets, the i-th of length
\* min(c, max(0, L - i*c)) with c = ceil(L/n), which together hold every
\* datapoint of the dataset exactly once.
C5_ChunksPartition ==
    ChunkReturned =>
        LET n == Len(returned.chunks)
            len == Len(ChunkedData)
            c == CeilDiv(len, n)
        IN  /\ n >= 1
            /\ \A j \in 1 .. n : Len(ChunkData(j)) = SliceLen(len, c, j - 1)
            /\ \A d \in DOMAIN points :
                  CountInChunks(d, n) = CountInChunked(d)

\* C5 amended: in supervised mode and in pretraining mode (after bert_init)
\* the statement holds as given; in kernel mode each chunk whose slice has
\* odd length drops the slice's last datapoint, so the i-th chunk has length
\* m - (m mod 2) for m = min(c, max(0, L - i*c)) and the chunks hold every
\* datapoint at most once.
C5_ChunksPartitionUnlessKernel ==
    ChunkReturned =>
        LET n == Len(returned.chunks)
            len == Len(ChunkedData)
            c == CeilDiv(len, n)
            kernel == dataset_type = "kernel"
        IN  /\ n >= 1
            /\ \A j \in 1 .. n :
                  LET m == SliceLen(len, c, j - 1)
                  IN  Len(ChunkData(j)) = IF kernel THEN m - (m % 2) ELSE m
            /\ \A d \in DOMAIN points :
                  IF kernel THEN CountInChunks(d, n) <= CountInChunked(d)
                  ELSE CountInChunks(d, n) = CountInChunked(d)

\* chunk(2) on a dataset of one datapoint: a full chunk and an empty one
C5_Witness ==
    /\ ChunkReturned
    /\ dataset_type # "kernel"
    /\ Len(returned.chunks) = 2
    /\ Len(ChunkedData) = 1
    /\ Len(ChunkData(1)) = 1
    /\ Len(ChunkData(2)) = 0

\* the number of mask entries of the first j datapoints of data
RECURSIVE MaskEntries(_, _)
MaskEntries(data, j) ==
    IF j = 0 THEN 0 ELSE Len0(points[data[j]].mask) + MaskEntries(data, j - 1)

\* C10: on every pretraining dataset (the first one and the chunks made from
\* it), after any shuffles, sorts and chunks, mask() and targets()['vocab']
\* have the same length, the sum of the datapoints' mask lengths, and entry k
\* of both comes from the same slot of the same datapoint, datapoints in
\* dataset order and slots in their order.
C10_MaskAlignedWithTargets ==
    \A i \in DOMAIN datasets :
        datasets[i].bert_pretraining =>
            LET data == datasets[i].data
                m == DatasetMask(datasets[i])
                t == DatasetTargetsVocab(datasets[i])
            IN  /\ ~m.raised
                /\ t.dict
                /\ Len(m.value) = Len(t.vocab)
                /\ Len(m.value) = MaskEntries(data, Len(data))
                /\ \A j \in DOMAIN data :
                      \A slot \in DOMAIN points[data[j]].mask :
                          LET k == MaskEntries(data, j - 1) + slot + 1
                          IN  /\ m.value[k] = [d |-> data[j], slot |-> slot,
                                               value |-> points[data[j]].mask[slot]]
                              /\ t.vocab[k].d = data[j]
                              /\ t.vocab[k].slot = slot

\* two datapoints shared by the first dataset and a chunk of it, the masks
\* recreated since the chunk was made and now of different lengths than the
\* atom counts
C10_Witness ==
    /\ dataset_type = "bert_pretraining"
    /\ ops = 2
    /\ ChunkReturned
    /\ Len(datasets[1].data) = 2
    /\ \E i \in DOMAIN datasets :
          /\ i > 1
          /\ datasets[i].bert_pretraining
          /\ Len(datasets[i].data) = 2
    /\ Len0(points[1].mask) = 1

(* ---------------------------------------------------------------------- *)
(* MoleculeDataset.bert_init                                              *)
(* ---------------------------------------------------------------------- *)
\* vocab.smiles2indices(smiles)[1] of the molecule with this smiles
DatapointNbIndices(smiles) ==
    NbIndices(AtomCount(smiles), Bonds(AtomCount(smiles)))

\* a datapoint as constructed: none of the pretraining attributes is set
NewDatapoint(smiles) ==
    [smiles |-> smiles, attrs |-> {}, vocab_targets |-> <<>>,
     nb_indices |-> <<>>, mask |-> <<>>]

\* MoleculeDatapoint.bert_init (lines 112-117) on datapoint dp: the
\* datapoints it can leave, or none when it raises
DatapointBertInit(dp) ==
    IF ~IsPretraining(dp.smiles) THEN {}
    ELSE {[smiles |-> dp.smiles,
           attrs |-> {"vocab_targets", "nb_indices", "mask"},
           vocab_targets |-> r.vocab_targets,
           nb_indices |-> DatapointNbIndices(dp.smiles),
           mask |-> r.mask] :
             r \in RecreateResults(dp.smiles,
                      [mask |-> <<>>, vocab_targets |-> DatapointTokens(dp.smiles)])}

\* lines 226 and 230: which of the paths the call takes
BertInitBegin ==
    /\ UNCHANGED notBertVars
    /\ bpc = "start"
    /\ IF sequential
       THEN /\ bpc' = "sequential"
            /\ pending' = pending
       ELSE /\ bpc' = "pool"
            /\ pending' = DOMAIN bdata
    /\ loop_i' = 1
    /\ UNCHANGED <<sequential, heap, bdata, data0, results, done_order>>

\* one iteration of `for d in self.data: d.bert_init()` (lines 227-228 and
\* 234-235): the datapoint is initialized in place, or the call raises
LoopStep ==
    /\ UNCHANGED notBertVars
    /\ bpc \in {"sequential", "fallback"}
    /\ loop_i <= Len(bdata)
    /\ IF DatapointBertInit(heap[bdata[loop_i]]) = {}
       THEN /\ bpc' = "raised"
            /\ UNCHANGED <<heap, loop_i>>
       ELSE /\ \E dp \in DatapointBertInit(heap[bdata[loop_i]]) :
                  heap' = [heap EXCEPT ![bdata[loop_i]] = dp]
            /\ loop_i' = loop_i + 1
            /\ bpc' = bpc
    /\ UNCHANGED <<sequential, bdata, data0, pending, results, done_order>>

\* the loop is over; line 237
LoopEnd ==
    /\ UNCHANGED notBertVars
    /\ bpc \in {"sequential", "fallback"}
    /\ loop_i > Len(bdata)
    /\ bpc' = "done"
    /\ UNCHANGED <<sequential, heap, bdata, data0, loop_i, pending, results, done_order>>

\* a worker of the pool takes task i, runs bert_init on its copy of the
\* datapoint and sends the copy back (line 232, line 195-197)
WorkerRun(i) ==
    /\ UNCHANGED notBertVars
    /\ bpc = "pool"
    /\ i \in pending
    /\ pending' = pending \ {i}
    /\ IF DatapointBertInit(heap[bdata[i]]) = {}
       THEN /\ bpc' = "raised"
            /\ UNCHANGED <<results, done_order>>
       ELSE /\ \E dp \in DatapointBertInit(heap[bdata[i]]) :
                  results' = [j \in DOMAIN results \cup {i} |->
                                 IF j = i THEN dp ELSE results[j]]
            /\ done_order' = Append(done_order, i)
            /\ bpc' = bpc
    /\ UNCHANGED <<sequential, heap, bdata, data0, loop_i>>

\* the list Pool.map returns, in the order of completion
MapResultsAsCompleted(res, order) == [j \in DOMAIN order |-> res[order[j]]]

\* the list Pool.map returns: one result per input, in the inputs' order
MapResults(res, order) == [j \in DOMAIN order |-> res[j]]

\* line 232: every task is done; self.data becomes the list of the copies,
\* which are new objects
PoolReturn ==
    /\ UNCHANGED notBertVars
    /\ bpc = "pool"
    /\ pending = {}
    /\ LET n == Len(bdata)
           out == MapResults(results, done_order)
       IN  /\ heap' = [o \in 1 .. 2 * n |-> IF o <= n THEN heap[o] ELSE out[o - n]]
           /\ bdata' = [j \in 1 .. n |-> n + j]
    /\ bpc' = "done"
    /\ UNCHANGED <<sequential, data0, loop_i, pending, results, done_order>>

\* lines 232-233: the pool raises OSError, when it is created or while it
\* maps; self.data was not reassigned and the loop of lines 234-235 runs
PoolOSError ==
    /\ UNCHANGED notBertVars
    /\ bpc = "pool"
    /\ bpc' = "fallback"
    /\ loop_i' = 1
    /\ pending' = {}
    /\ results' = <<>>
    /\ done_order' = <<>>
    /\ UNCHANGED <<sequential, heap, bdata, data0>>

\* a dataset of 0..MaxPoolData datapoints on which bert_init is called
InitBert ==
    /\ MaskIdle
    /\ NormIdle
    /\ ShuffleIdle
    /\ dataset_type \in {"bert_pretraining", "supervised"}
    /\ vocab_func \in (IF dataset_type = "bert_pretraining"
                       THEN {"atom", "substructure"} ELSE {"atom"})
    /\ points = <<>>
    /\ datasets = <<>>
    /\ returned = <<>>
    /\ ops = 0
    /\ sequential \in BOOLEAN
    /\ \E n \in 0 .. MaxPoolData :
          /\ heap = [o \in 1 .. n |-> NewDatapoint(o)]
          /\ bdata = [j \in 1 .. n |-> j]
          /\ data0 = [j \in 1 .. n |-> j]
    /\ bpc = "start"
    /\ loop_i = 0
    /\ pending = {}
    /\ results = <<>>
    /\ done_order = <<>>

WorkerRunAny == \E i \in 1 .. MaxPoolData : WorkerRun(i)

NextBert ==
    \/ BertInitBegin
    \/ LoopStep
    \/ LoopEnd
    \/ WorkerRunAny
    \/ PoolReturn
    \/ PoolOSError

SpecBert == InitBert /\ [][NextBert]_vars

(* ---------------------------------------------------------------------- *)
(* Properties of MoleculeDataset.bert_init (SpecBert)                     *)
(* ---------------------------------------------------------------------- *)
\* C8: on a pretraining dataset bert_init does not raise on any of its
\* paths, and when it returns the dataset holds as many datapoints as
\* before, in the same order, each with vocab_targets, nb_indices and mask.
C8_BertInitKeepsOrder ==
    dataset_type = "bert_pretraining" =>
        /\ bpc # "raised"
        /\ bpc = "done" =>
              /\ Len(bdata) = Len(data0)
              /\ \A j \in DOMAIN bdata :
                    /\ heap[bdata[j]].smiles = data0[j]
                    /\ heap[bdata[j]].attrs = {"vocab_targets", "nb_indices", "mask"}
                    /\ Len0(heap[bdata[j]].mask) >= 1
                    /\ DOMAIN heap[bdata[j]].vocab_targets = DOMAIN heap[bdata[j]].mask

\* the pool returned after its workers finished in another order than the
\* order of the inputs
C8_Witness ==
    /\ dataset_type = "bert_pretraining"
    /\ bpc = "done"
    /\ Len(bdata) = 3
    /\ Len(done_order) = 3
    /\ done_order[1] = 3
    /\ bdata[1] > 3

(* ---------------------------------------------------------------------- *)
(* StandardScaler and MoleculeDataset.normalize_features                  *)
(* ---------------------------------------------------------------------- *)
\* Feature values are exact rationals <<numerator, denominator>> in lowest
\* terms with a positive denominator.
Abs(x) == IF x < 0 THEN -x ELSE x

RECURSIVE Gcd(_, _)
Gcd(a, b) == IF b = 0 THEN a ELSE Gcd(b, a % b)

Rat(num, den) ==
    LET g == Gcd(Abs(num), Abs(den))
        sign == IF den < 0 THEN -1 ELSE 1
    IN  <<sign * (num \div g), sign * (den \div g)>>

RAdd(x, y) == Rat(x[1] * y[2] + y[1] * x[2], x[2] * y[2])

RSub(x, y) == Rat(x[1] * y[2] - y[1] * x[2], x[2] * y[2])

RMul(x, y) == Rat(x[1] * y[1], x[2] * y[2])

RDiv(x, y) == Rat(x[1] * y[2], x[2] * y[1])

\* the square roots used are of squares of rationals
IsSquare(n) == \E r \in 0 .. n : r * r = n

IntSqrt(n) == CHOOSE r \in 0 .. n : r * r = n

HasRSqrt(x) == x[1] >= 0 /\ IsSquare(x[1]) /\ IsSquare(x[2])

RSqrt(x) == <<IntSqrt(x[1]), IntSqrt(x[2])>>

RECURSIVE RSum(_, _)
RSum(a, n) == IF n = 0 THEN <<0, 1>> ELSE RAdd(a[n], RSum(a, n - 1))

\* the mean and the variance of a column (a sequence of rationals)
Mean(col) == RDiv(RSum(col, Len(col)), <<Len(col), 1>>)

Variance(col) ==
    LET mu == Mean(col)
        sq == [k \in DOMAIN col |-> RMul(RSub(col[k], mu), RSub(col[k], mu))]
    IN  RDiv(RSum(sq, Len(sq)), <<Len(sq), 1>>)

\* the columns of the stacked feature matrix (line 320)
Column(f, c) == [k \in 1 .. Len(f) |-> f[k][c]]

Columns(f) == DOMAIN f[1]

\* StandardScaler.fit: the mean and the standard deviation of every feature
ScalerFit(f) ==
    [means |-> [c \in Columns(f) |-> Mean(Column(f, c))],
     stds |-> [c \in Columns(f) |-> RSqrt(Variance(Column(f, c)))]]

\* StandardScaler.transform on one feature vector
ScalerTransform(sc, v) ==
    [c \in DOMAIN v |-> RDiv(RSub(v[c], sc.means[c]), sc.stds[c])]

\* a scaler that maps every feature vector to itself
UnitScaler(f) ==
    [means |-> [c \in Columns(f) |-> <<0, 1>>],
     stds |-> [c \in Columns(f) |-> <<1, 1>>]]

\* the scalers a caller passes to normalize_features
GivenScalers(f) == {UnitScaler(f)}

\* lines 314-323: the scaler the call uses; arg is <<>> for None
ChosenScaler(arg) ==
    IF arg # <<>> THEN arg[1]
    ELSE IF scaler # <<>> THEN scaler[1]
    ELSE ScalerFit(features)

\* MoleculeDataset.normalize_features (lines 310-328)
NormalizeFeatures(arg) ==
    /\ UNCHANGED notNormVars
    /\ Len(norm_log) < MaxNormCalls
    /\ IF Len(features) = 0 \/ features[1] = <<>>
       THEN /\ UNCHANGED <<features, scaler>>
            /\ norm_log' = Append(norm_log,
                   [given |-> arg # <<>>, had_scaler |-> scaler # <<>>,
                    returned_none |-> TRUE, features |-> features])
       ELSE LET sc == ChosenScaler(arg)
            IN  /\ scaler' = <<sc>>
                /\ features' = [k \in DOMAIN features |-> ScalerTransform(sc, features[k])]
                /\ norm_log' = Append(norm_log,
                       [given |-> arg # <<>>, had_scaler |-> scaler # <<>>,
                        returned_none |-> FALSE, features |-> features'])

NormalizeNoArgument == NormalizeFeatures(<<>>)

NormalizeWithScaler ==
    /\ Len(features) > 0
    /\ features[1] # <<>>
    /\ \E sc \in GivenScalers(features) : NormalizeFeatures(<<sc>>)

\* the feature matrices of two datapoints with one or two features each,
\* every feature with a non-zero spread
FeatureMatrices ==
    {f \in [1 .. 2 -> UNION {[1 .. w -> {<<v, 1>> : v \in 0 .. MaxFeatureValue}] :
                               w \in 1 .. 2}] :
        /\ DOMAIN f[1] = DOMAIN f[2]
        /\ \A c \in DOMAIN f[1] : f[1][c] # f[2][c]}

\* a dataset constructed (line 213: no scaler yet): empty, or two datapoints
\* without features, or two datapoints with features
InitNorm ==
    /\ MaskIdle
    /\ DataIdle
    /\ BertIdle
    /\ ShuffleIdle
    /\ features \in {<<>>, <<<<>>, <<>>>>} \cup FeatureMatrices
    /\ scaler = <<>>
    /\ norm_log = <<>>

NextNorm ==
    \/ NormalizeNoArgument
    \/ NormalizeWithScaler

SpecNorm == InitNorm /\ [][NextNorm]_vars

(* ---------------------------------------------------------------------- *)
(* Properties of normalize_features (SpecNorm)                            *)
(* ---------------------------------------------------------------------- *)
\* C6 as stated: with features and no scaler yet, after two calls of
\* normalize_features() without argument every feature vector is what the
\* first call left.
C6_SecondCallKeepsFeatures ==
    (/\ Len(norm_log) = 2
     /\ ~norm_log[1].returned_none
     /\ ~norm_log[1].given
     /\ ~norm_log[1].had_scaler
     /\ ~norm_log[2].given)
        => norm_log[2].features = norm_log[1].features

(* ---------------------------------------------------------------------- *)
(* shuffle(seed) on two content-identical datasets                        *)
(* ---------------------------------------------------------------------- *)
\* A generator is its state, a number below RngMod; a draw advances it.
RngNext(s) == (5 * s + 3) % RngMod

\* random.seed(seed)
Seeded(seed) == seed % RngMod

\* a draw below k from state s (randbelow, randint)
RandBelow(s, k) == s % k

\* a draw of np.random.rand() compared with bert_mask_prob = 1/2
AboveMaskProb(s) == IF 2 * s > RngMod THEN 1 ELSE 0

Swap(x, i, j) ==
    [k \in DOMAIN x |-> IF k = i THEN x[j] ELSE IF k = j THEN x[i] ELSE x[k]]

\* random.shuffle(x) from generator state s: for i from len-1 down to 1,
\* swap x[i] with x[randbelow(i+1)]; i counts the 0-based position
RECURSIVE RandomShuffle(_, _, _)
RandomShuffle(x, i, s) ==
    IF i < 1 THEN [list |-> x, rng |-> s]
    ELSE RandomShuffle(Swap(x, i + 1, RandBelow(s, i + 1) + 1), i - 1, RngNext(s))

\* np.random.rand(n) > self.bert_mask_prob from generator state s
RECURSIVE RandMask(_, _)
RandMask(n, s) ==
    IF n = 0 THEN [mask |-> <<>>, rng |-> s]
    ELSE LET rest == RandMask(n - 1, s)
         IN  [mask |-> [i \in Indices(n) |->
                           IF i = n - 1 THEN AboveMaskProb(rest.rng) ELSE rest.mask[i]],
              rng |-> RngNext(rest.rng)]

\* recreate_mask with the 'random' policy (lines 178-189) from numpy state s
RandomPolicyMask(n, s) ==
    LET drawn == RandMask(n, s)
    IN  IF Sum0(drawn.mask) = Len0(drawn.mask)
        THEN [mask |-> [drawn.mask EXCEPT ![RandBelow(drawn.rng, n)] = 0],
              rng |-> RngNext(drawn.rng)]
        ELSE drawn

\* `for d in self.data: d.recreate_mask()` (lines 298-299) from numpy state s
RECURSIVE RecreateInOrder(_, _, _)
RecreateInOrder(data, masks, s) ==
    IF data = <<>> THEN [masks |-> masks, rng |-> s]
    ELSE LET r == RandomPolicyMask(AtomCount(Head(data)), s)
         IN  RecreateInOrder(Tail(data),
                             [masks EXCEPT ![Head(data)] = r.mask], r.rng)

\* the generator random.shuffle draws from (lines 292-293): seed is <<>> for
\* None
ShuffleRng(run, seed) == IF seed # <<>> THEN Seeded(seed[1]) ELSE run.py_rng

\* the numpy generator the masks are drawn from: random.seed does not touch it
MaskRng(run, seed) == run.np_rng

\* MoleculeDataset.shuffle (lines 291-299) in one process
ShuffleRun(run, seed) ==
    LET sh == RandomShuffle(run.data, Len(run.data) - 1, ShuffleRng(run, seed))
        re == IF run.bert_pretraining
              THEN RecreateInOrder(sh.list, run.masks, MaskRng(run, seed))
              ELSE [masks |-> run.masks, rng |-> run.np_rng]
    IN  [data |-> sh.list, masks |-> re.masks, bert_pretraining |-> run.bert_pretraining,
         py_rng |-> sh.rng, np_rng |-> re.rng, shuffles |-> run.shuffles + 1]

\* both datasets are shuffled with the same seed
ShuffleBoth(seed) ==
    /\ UNCHANGED notShuffleVars
    /\ \A r \in DOMAIN runs : runs[r].shuffles < MaxShuffles
    /\ runs' = [r \in DOMAIN runs |-> ShuffleRun(runs[r], seed)]
    /\ last_seed' = [given |-> seed # <<>>, seed |-> IF seed # <<>> THEN seed[1] ELSE 0]

ShuffleSeeded == \E seed \in 0 .. MaxSeed : ShuffleBoth(<<seed>>)

ShuffleUnseeded == ShuffleBoth(<<>>)

\* two datasets constructed independently from the same datapoints, in
\* processes whose generators are in any state; in pretraining mode
\* bert_init has drawn the first masks
InitShuffle ==
    /\ MaskIdle
    /\ DataIdle
    /\ BertIdle
    /\ NormIdle
    /\ \E n \in 1 .. MaxShuffleData, pre \in BOOLEAN :
          \E pa, pb, na, nb \in 0 .. (RngMod - 1) :
              LET first(s) == IF pre
                              THEN RecreateInOrder([d \in 1 .. n |-> d],
                                                   [d \in 1 .. n |-> <<>>], s)
                              ELSE [masks |-> [d \in 1 .. n |-> <<>>], rng |-> s]
                  run(p, s) == [data |-> [d \in 1 .. n |-> d],
                                masks |-> first(s).masks,
                                bert_pretraining |-> pre,
                                py_rng |-> p, np_rng |-> first(s).rng,
                                shuffles |-> 0]
              IN  runs = <<run(pa, na), run(pb, nb)>>
    /\ last_seed = [given |-> FALSE, seed |-> 0]

NextShuffle ==
    \/ ShuffleSeeded
    \/ ShuffleUnseeded

SpecShuffle == InitShuffle /\ [][NextShuffle]_vars

(* ---------------------------------------------------------------------- *)
(* Properties of shuffle (SpecShuffle)                                    *)
(* ---------------------------------------------------------------------- *)
\* a call of shuffle with a seed on two datasets in the same order
SeededShuffleStep ==
    /\ runs[1].data = runs[2].data
    /\ runs'[1].shuffles = runs[1].shuffles + 1
    /\ last_seed'.given

\* C7 as stated: shuffle with the same non-None seed leaves two
\* content-identical datasets in the same datapoint order and, in pretraining
\* mode, with the same mask on every datapoint, whatever state the random
\* generators were in before the call.
C7_SeededShuffleDeterministic ==
    [][SeededShuffleStep =>
          /\ runs'[1].data = runs'[2].data
          /\ runs'[1].bert_pretraining => runs'[1].masks = runs'[2].masks]_vars

====
